---- MODULE Spec2Model ----
(***************************************************************************)
(* A model of scripts/generate_today.py: the daily batch that collects    *)
(* AI news candidates from RSS feeds, deduplicates them on a normalized   *)
(* URL, picks three of them from distinct sources, enriches them (LLM or  *)
(* fallback) and writes the digest.                                        *)
(*                                                                         *)
(* Strings the program inspects character by character (URLs, feed names) *)
(* are sequences of one-character strings, so that parsing, lower-casing  *)
(* and re-encoding are computed and not assumed.                           *)
(***************************************************************************)
EXTENDS Integers, Sequences, FiniteSets, TLC

(***************************************************************************)
(* Characters and the str methods the program uses.                        *)
(***************************************************************************)
UpperChars == <<"A","B","C","D","E","F","G","H","I","J","K","L","M",
                "N","O","P","Q","R","S","T","U","V","W","X","Y","Z">>
LowerChars == <<"a","b","c","d","e","f","g","h","i","j","k","l","m",
                "n","o","p","q","r","s","t","u","v","w","x","y","z">>
DigitChars == <<"0","1","2","3","4","5","6","7","8","9">>

Range(s) == {s[i] : i \in DOMAIN s}

IsAlpha(c) == c \in Range(UpperChars) \cup Range(LowerChars)
IsAlnum(c) == IsAlpha(c) \/ c \in Range(DigitChars)

\* str.lower() on one character
LowerChar(c) ==
    IF c \in Range(UpperChars)
    THEN LowerChars[CHOOSE i \in DOMAIN UpperChars : UpperChars[i] = c]
    ELSE c

\* the sequence f as an explicit tuple (the same value, stored element by
\* element)
AsTuple(f) == <<>> \o f

\* str.lower()
str_lower(s) == AsTuple([i \in 1..Len(s) |-> LowerChar(s[i])])

\* str.find(c): the 1-based index of the first c in s, 0 when there is none
str_find(s, c) ==
    IF \E i \in 1..Len(s) : s[i] = c
    THEN CHOOSE i \in 1..Len(s) : s[i] = c /\ \A j \in 1..(i-1) : s[j] # c
    ELSE 0

\* str.startswith(p)
str_startswith(s, p) ==
    Len(s) >= Len(p) /\ \A i \in 1..Len(p) : s[i] = p[i]

\* p in s (substring test)
str_contains(s, p) ==
    \E k \in 0..(Len(s) - Len(p)) : \A i \in 1..Len(p) : s[k + i] = p[i]

\* str.rstrip(c): every trailing c removed
RECURSIVE str_rstrip(_, _)
str_rstrip(s, c) ==
    IF Len(s) > 0 /\ s[Len(s)] = c THEN str_rstrip(SubSeq(s, 1, Len(s) - 1), c) ELSE s

RECURSIVE str_lstrip(_, _)
str_lstrip(s, c) ==
    IF Len(s) > 0 /\ s[1] = c THEN str_lstrip(Tail(s), c) ELSE s

\* str.strip(): the only whitespace of the model's alphabet is the space
str_strip(s) == str_rstrip(str_lstrip(s, " "), " ")

\* str.split(c): the pieces of s between the occurrences of c
RECURSIVE str_split(_, _)
str_split(s, c) ==
    LET i == str_find(s, c) IN
    IF i = 0 THEN <<s>>
    ELSE <<SubSeq(s, 1, i - 1)>> \o str_split(SubSeq(s, i + 1, Len(s)), c)

\* sep.join(parts)
RECURSIVE str_join(_, _)
str_join(parts, sep) ==
    IF Len(parts) = 0 THEN <<>>
    ELSE IF Len(parts) = 1 THEN parts[1]
    ELSE parts[1] \o sep \o str_join(Tail(parts), sep)

(***************************************************************************)
(* urllib.parse as normalize_url uses it.  The model's alphabet is ASCII   *)
(* letters, digits, space and : / ? # = & . _ - [ ; it has no % + ; ] and *)
(* no control characters, so unquote() is the identity on it, params are   *)
(* always empty and the bracketed-host check cannot be reached.            *)
(***************************************************************************)
scheme_chars == Range(UpperChars) \cup Range(LowerChars) \cup Range(DigitChars)
                    \cup {"+", "-", "."}

\* what normalize_url gives when urlparse raises ValueError: no string of
\* characters, which are all of length one
ValueError == <<"ValueError">>

\* urlsplit / urlparse: the five components, or ValueError
urlparse(url) ==
    LET i         == str_find(url, ":")
        hasScheme == /\ i > 1
                     /\ IsAlpha(url[1])
                     /\ \A k \in 1..(i-1) : url[k] \in scheme_chars
        scheme    == IF hasScheme THEN str_lower(SubSeq(url, 1, i - 1)) ELSE <<>>
        u1        == IF hasScheme THEN SubSeq(url, i + 1, Len(url)) ELSE url
        hasNetloc == Len(u1) >= 2 /\ u1[1] = "/" /\ u1[2] = "/"
        \* _splitnetloc(url, 2): up to the first of / ? #
        stops     == {k \in 3..Len(u1) : u1[k] \in {"/", "?", "#"}}
        delim     == IF stops = {} THEN Len(u1) + 1
                     ELSE CHOOSE k \in stops : \A m \in stops : k <= m
        netloc    == IF hasNetloc THEN SubSeq(u1, 3, delim - 1) ELSE <<>>
        u2        == IF hasNetloc THEN SubSeq(u1, delim, Len(u1)) ELSE u1
        badIPv6   == \/ ("[" \in Range(netloc) /\ "]" \notin Range(netloc))
                     \/ ("]" \in Range(netloc) /\ "[" \notin Range(netloc))
        h         == str_find(u2, "#")
        u3        == IF h > 0 THEN SubSeq(u2, 1, h - 1) ELSE u2
        fragment  == IF h > 0 THEN SubSeq(u2, h + 1, Len(u2)) ELSE <<>>
        q         == str_find(u3, "?")
        path      == IF q > 0 THEN SubSeq(u3, 1, q - 1) ELSE u3
        query     == IF q > 0 THEN SubSeq(u3, q + 1, Len(u3)) ELSE <<>>
    IN  IF badIPv6
        THEN [error |-> "ValueError", scheme |-> <<>>, netloc |-> <<>>, path |-> <<>>,
              params |-> <<>>, query |-> <<>>, fragment |-> <<>>]
        ELSE [error |-> "", scheme |-> scheme, netloc |-> netloc, path |-> path,
              params |-> <<>>, query |-> query, fragment |-> fragment]

\* parse_qsl(qs, keep_blank_values=True): the (name, value) pairs in order;
\* empty fields are dropped, a field without = gets a blank value
parse_qsl(qs) ==
    LET fields == IF Len(qs) = 0 THEN <<>> ELSE str_split(qs, "&")
        NonEmpty(f) == Len(f) > 0
        kept   == SelectSeq(fields, NonEmpty)
        Pair(f) == LET eq == str_find(f, "=") IN
                   IF eq = 0 THEN <<f, <<>> >>
                   ELSE <<SubSeq(f, 1, eq - 1), SubSeq(f, eq + 1, Len(f))>>
    IN  AsTuple([i \in 1..Len(kept) |-> Pair(kept[i])])

\* quote_plus on one character: letters, digits and _ . - ~ are kept, a space
\* becomes +, anything else is percent-encoded
quote_plus_char(c) ==
    IF IsAlnum(c) \/ c \in {"_", ".", "-", "~"} THEN <<c>>
    ELSE IF c = " " THEN <<"+">>
    ELSE IF c = "/" THEN <<"%", "2", "F">>
    ELSE IF c = ":" THEN <<"%", "3", "A">>
    ELSE IF c = "=" THEN <<"%", "3", "D">>
    ELSE IF c = "?" THEN <<"%", "3", "F">>
    ELSE IF c = "[" THEN <<"%", "5", "B">>
    ELSE <<"%", "2", "3">>  \* "#" cannot occur in a query; listed for totality

RECURSIVE quote_plus(_)
quote_plus(s) ==
    IF Len(s) = 0 THEN <<>> ELSE quote_plus_char(s[1]) \o quote_plus(Tail(s))

\* urlencode(pairs): k=v joined by &
urlencode(pairs) ==
    str_join(AsTuple([i \in 1..Len(pairs) |->
                        quote_plus(pairs[i][1]) \o <<"=">> \o quote_plus(pairs[i][2])]),
             <<"&">>)

uses_netloc == {<<>>, <<"h","t","t","p">>, <<"h","t","t","p","s">>, <<"f","t","p">>}

\* urlunparse((scheme, netloc, path, params, query, "")): params are empty
urlunparse(scheme, netloc, path, query) ==
    LET withNetloc == \/ Len(netloc) > 0
                      \/ /\ Len(scheme) > 0
                         /\ scheme \in uses_netloc
                         /\ ~str_startswith(path, <<"/", "/">>)
        p1 == IF withNetloc /\ Len(path) > 0 /\ path[1] # "/" THEN <<"/">> \o path ELSE path
        u1 == IF withNetloc THEN <<"/", "/">> \o netloc \o p1 ELSE path
        u2 == IF Len(scheme) > 0 THEN scheme \o <<":">> \o u1 ELSE u1
    IN  IF Len(query) > 0 THEN u2 \o <<"?">> \o query ELSE u2

utm_prefix == <<"u","t","m","_">>
https == <<"h","t","t","p","s">>
http == <<"h","t","t","p">>

\* whether a (name, value) pair survives the filter of the list comprehension
not_utm(kv) == ~str_startswith(str_lower(kv[1]), utm_prefix)

\* scheme = u.scheme or "https"; http becomes https
normalized_scheme(scheme) ==
    IF Len(scheme) = 0 \/ scheme = http THEN https ELSE scheme

\* path = u.path.rstrip("/") or "/", given the stripped path
path_or_root(rp) == IF Len(rp) = 0 THEN <<"/">> ELSE rp

\* the last five lines of normalize_url without the .lower() on the host
normalize_parts_host_case_kept(u) ==
    IF u.error # "" THEN ValueError
    ELSE urlunparse(normalized_scheme(u.scheme), u.netloc,
                    path_or_root(str_rstrip(u.path, "/")),
                    urlencode(SelectSeq(parse_qsl(u.query), not_utm)))

\* normalize_url without the .lower() on the host
normalize_url_host_case_kept(url) ==
    normalize_parts_host_case_kept(urlparse(str_strip(url)))

\* the last five lines of normalize_url, on the parsed u: ValueError when
\* urlparse raised
normalize_parts(u) ==
    IF u.error # "" THEN ValueError
    ELSE urlunparse(normalized_scheme(u.scheme), str_lower(u.netloc),
                    path_or_root(str_rstrip(u.path, "/")),
                    urlencode(SelectSeq(parse_qsl(u.query), not_utm)))

\* normalize_url: the dedup key of a link, or ValueError when urlparse raises
normalize_url(url) == normalize_parts(urlparse(str_strip(url)))

(***************************************************************************)
(* Text helpers and the keyword classifiers.  The Japanese keywords of     *)
(* AI_KEYWORDS are left out: the texts of the model are ASCII, so none of  *)
(* them can occur.                                                         *)
(***************************************************************************)
\* re.sub(r"<[^>]+>", " ", s): a "<", at least one character that is not ">",
\* and the next ">" become one space
RECURSIVE remove_tags(_)
remove_tags(s) ==
    IF Len(s) = 0 THEN <<>>
    ELSE IF s[1] = "<" /\ str_find(Tail(s), ">") > 1
         THEN <<" ">> \o remove_tags(SubSeq(s, str_find(Tail(s), ">") + 2, Len(s)))
         ELSE <<s[1]>> \o remove_tags(Tail(s))

\* re.sub(r"\s+", " ", s)
RECURSIVE collapse_spaces(_)
collapse_spaces(s) ==
    IF Len(s) = 0 THEN <<>>
    ELSE IF s[1] = " " /\ Len(s) >= 2 /\ s[2] = " " THEN collapse_spaces(Tail(s))
    ELSE <<s[1]>> \o collapse_spaces(Tail(s))

strip_html(s) == str_strip(collapse_spaces(remove_tags(s)))

AI_KEYWORDS ==
    { <<"a","i">>, <<"a","r","t","i","f","i","c","i","a","l"," ","i","n","t","e","l","l","i","g","e","n","c","e">>,
      <<"m","a","c","h","i","n","e"," ","l","e","a","r","n","i","n","g">>, <<"d","e","e","p"," ","l","e","a","r","n","i","n","g">>,
      <<"l","l","m">>, <<"g","p","t">>,
      <<"c","h","a","t","g","p","t">>, <<"c","l","a","u","d","e">>,
      <<"g","e","m","i","n","i">>, <<"f","o","u","n","d","a","t","i","o","n"," ","m","o","d","e","l">>,
      <<"a","g","e","n","t">>, <<"i","n","f","e","r","e","n","c","e">>,
      <<"t","r","a","i","n","i","n","g">>, <<"b","e","n","c","h","m","a","r","k">>,
      <<"t","r","a","n","s","f","o","r","m","e","r">>, <<"g","p","u">>,
      <<"n","v","i","d","i","a">>, <<"c","h","i","p">>,
      <<"s","e","m","i","c","o","n","d","u","c","t","o","r">>, <<"a","i"," ","a","c","t">>,
      <<"r","e","g","u","l","a","t","i","o","n">>, <<"g","o","v","e","r","n","a","n","c","e">>,
      <<"c","o","p","y","r","i","g","h","t">>, <<"e","x","p","o","r","t"," ","c","o","n","t","r","o","l","s">> }

looks_ai_related(title, summary) ==
    LET blob == str_lower(title \o <<" ">> \o summary)
    IN  \E k \in AI_KEYWORDS : str_contains(blob, k)

market_keywords ==
    { <<"f","u","n","d","i","n","g">>, <<"v","a","l","u","a","t","i","o","n">>, <<"i","n","v","e","s","t","m","e","n","t">>,
      <<"i","p","o">>, <<"e","a","r","n","i","n","g","s">>, <<"r","e","v","e","n","u","e">>,
      <<"a","c","q","u","i","s","i","t","i","o","n">>, <<"m","e","r","g","e","r">>, <<"d","e","a","l">>,
      <<"p","a","r","t","n","e","r","s","h","i","p">>, <<"p","r","i","c","i","n","g">>, <<"l","a","y","o","f","f">> }
policy_keywords ==
    { <<"r","e","g","u","l","a","t","i","o","n">>, <<"a","i"," ","a","c","t">>, <<"l","a","w">>,
      <<"p","o","l","i","c","y">>, <<"g","o","v","e","r","n","m","e","n","t">>, <<"b","a","n">>,
      <<"c","o","p","y","r","i","g","h","t">>, <<"a","n","t","i","t","r","u","s","t">>, <<"e","x","p","o","r","t">>,
      <<"c","o","n","t","r","o","l","s">>, <<"s","a","n","c","t","i","o","n">>, <<"c","o","m","p","l","i","a","n","c","e">> }
tech_keywords ==
    { <<"m","o","d","e","l">>, <<"r","e","l","e","a","s","e">>, <<"b","e","n","c","h","m","a","r","k">>,
      <<"t","r","a","i","n","i","n","g">>, <<"i","n","f","e","r","e","n","c","e">>, <<"a","g","e","n","t">>,
      <<"c","h","i","p">>, <<"g","p","u">>, <<"a","r","c","h","i","t","e","c","t","u","r","e">>,
      <<"o","p","e","n"," ","s","o","u","r","c","e">>, <<"d","a","t","a","s","e","t">>, <<"t","o","k","e","n">>,
      <<"c","o","n","t","e","x","t">> }

infer_bucket(title, summary) ==
    LET t == str_lower(title \o <<" ">> \o summary) IN
    IF \E k \in policy_keywords : str_contains(t, k) THEN "policy"
    ELSE IF \E k \in market_keywords : str_contains(t, k) THEN "market"
    ELSE IF \E k \in tech_keywords : str_contains(t, k) THEN "tech"
    ELSE "tech"

tier1_markers ==
    { <<"o","p","e","n","a","i">>, <<"a","n","t","h","r","o","p","i","c">>,
      <<"d","e","e","p","m","i","n","d">>, <<"g","o","o","g","l","e">>,
      <<"h","u","g","g","i","n","g"," ","f","a","c","e">> }
tier2_markers ==
    { <<"i","t","m","e","d","i","a">>, <<"a","i","n","o","w">> }

\* source_priority on the characters of a feed name
source_priority(name) ==
    LET n == str_lower(name) IN
    IF \E k \in tier1_markers : str_contains(n, k) THEN 1
    ELSE IF \E k \in tier2_markers : str_contains(n, k) THEN 2
    ELSE 3

(***************************************************************************)
(* Dates.  A date string of a feed is "" (absent), "garbage" (not a date)  *)
(* or a local time with an offset ("naive" when it carries none); an       *)
(* instant is an integer.                                                  *)
(***************************************************************************)
NoDate == [kind |-> "absent", local |-> 0, offset |-> 0]
Garbage == [kind |-> "garbage", local |-> 0, offset |-> 0]
NaiveDate(t) == [kind |-> "naive", local |-> t, offset |-> 0]
AwareDate(t, off) == [kind |-> "aware", local |-> t, offset |-> off]

\* safe_date: <<t>> for the UTC instant t of a date string, <<>> (None) when
\* the string is absent or is not a date
safe_date(s) ==
    IF s.kind = "absent" THEN <<>>
    ELSE IF s.kind = "garbage" THEN <<>>
    ELSE IF s.kind = "naive" THEN <<s.local>>
    ELSE <<s.local - s.offset>>

\* pick_published: the first of published, updated, created that is a date
pick_published(entry) ==
    IF safe_date(entry.published) # <<>> THEN safe_date(entry.published)
    ELSE IF safe_date(entry.updated) # <<>> THEN safe_date(entry.updated)
    ELSE IF safe_date(entry.created) # <<>> THEN safe_date(entry.created)
    ELSE <<>>

(***************************************************************************)
(* State.  npc .. keyB belong to the specification of normalize_url alone; *)
(* the rest is one run of main().                                          *)
(***************************************************************************)
VARIABLES
    npc,          \* "start" | "chosen" | "normalized"
    rawA, rawB,   \* two raw links
    diff,         \* the kinds of difference between rawA and rawB
    keyA, keyB,   \* normalize_url of each
    pc,           \* where main() is
    api_key,      \* whether OPENAI_API_KEY is set
    feed_i,       \* collect_candidates: index of the feed of the for loop
    todo,         \* entries of entries[:PER_FEED_LIMIT] not yet visited
    e,            \* the entry of the inner loop
    items,        \* collect_candidates: items
    seen_urls,    \* collect_candidates: seen_urls
    warned,       \* names printed in "[WARN] feed failed" lines
    offered,      \* history: per normalized URL, the first visited entry that
                  \* has a link and a title and is AI related, as a candidate
    cands,        \* main: cands
    picked,       \* pick_three_diverse: picked, then main: picked
    used_sources, \* pick_three_diverse: used_sources
    bucket_i,     \* pick_three_diverse: index of the bucket of the first loop
    structured,   \* main: what openai_structurize returned or raised
    payload,      \* main: payload
    files         \* the files written: path -> payload

nvars == <<npc, rawA, rawB, diff, keyA, keyB>>
cvars == <<feed_i, todo, e, items, seen_urls, warned, offered>>
kvars == <<cands, picked, used_sources, bucket_i>>
mvars == <<structured, payload, files>>
pvars == <<pc, api_key, cvars, kvars, mvars>>
vars == <<nvars, pvars>>

(***************************************************************************)
(* Configuration.  PER_FEED_LIMIT is 12 and TOTAL_CANDIDATES is 80 in the  *)
(* source; the model scales them down, and runs three of the eleven feeds  *)
(* of AI_TECH_RSS_FEEDS, in the order the dict lists them.                 *)
(***************************************************************************)
PER_FEED_LIMIT == 2
TOTAL_CANDIDATES == 3
MaxFeedEntries == 3     \* a fetched feed holds 0..MaxFeedEntries entries
MaxItems == 4           \* the analysis service returns 0..MaxItems items
Now == 2                \* datetime.now(timezone.utc), one instant for the run
SUMMARY_RAW_LIMIT == 1500

FeedChars ==
    [n \in {"OpenAI", "Anthropic", "TechCrunch AI", "ITmedia AI+"} |->
        CASE n = "OpenAI"        -> <<"O","p","e","n","A","I">>
          [] n = "Anthropic"     -> <<"A","n","t","h","r","o","p","i","c">>
          [] n = "TechCrunch AI" -> <<"T","e","c","h","C","r","u","n","c","h"," ","A","I">>
          [] n = "ITmedia AI+"   -> <<"I","T","m","e","d","i","a"," ","A","I","+">>]

AI_TECH_RSS_FEEDS == <<"OpenAI", "TechCrunch AI", "ITmedia AI+">>

NumFeeds == Len(AI_TECH_RSS_FEEDS)

Min(a, b) == IF a <= b THEN a ELSE b

(***************************************************************************)
(* The entries a feed may hold.                                            *)
(***************************************************************************)
LinkPostA == <<"h","t","t","p",":","/","/","E","x","a","m","p","l","e",".","c","o","m","/","P","o","s","t","/","?","u","t","m","_","c","a","m","p","a","i","g","n","=","x">>
LinkPostB == <<"h","t","t","p","s",":","/","/","e","x","a","m","p","l","e",".","c","o","m","/","p","o","s","t">>
LinkPostC == <<"h","t","t","p",":","/","/","E","x","a","m","p","l","e",".","c","o","m","/","p","o","s","t","/","?","u","t","m","_","c","a","m","p","a","i","g","n","=","x">>
LinkA1 == <<"h","t","t","p","s",":","/","/","e","x","a","m","p","l","e",".","c","o","m","/","a","?","u","t","m","_","s","o","u","r","c","e","=","x","&","b","=","1">>
LinkA2 == <<"h","t","t","p","s",":","/","/","e","x","a","m","p","l","e",".","c","o","m","/","a","/","?","B","=","1">>
LinkBad == <<"h","t","t","p",":","/","/","[","b","a","d","/","x">>

TitleMarket == <<"A","I"," ","p","r","i","c","i","n","g"," ","d","e","a","l">>
TitlePolicy == <<"A","I"," ","l","a","w"," ","d","e","a","l">>
TitleTech == <<"<","b",">","G","P","U","<","/","b",">"," "," ","c","h","i","p">>
TitleOther == <<"C","o","o","k","i","n","g"," ","t","i","p","s">>
SummaryModel == <<"n","e","w"," ","m","o","d","e","l">>

Entry(link, title, summary, description, published, updated, created) ==
    [link |-> link, title |-> title, summary |-> summary, description |-> description,
     published |-> published, updated |-> updated, created |-> created]

NoEntry == Entry(<<>>, <<>>, <<>>, <<>>, NoDate, NoDate, NoDate)

EntryPool ==
    { Entry(LinkPostA, TitleMarket, <<>>, <<>>, NaiveDate(1), NoDate, NoDate),
      Entry(LinkPostB, TitlePolicy, <<>>, <<>>, AwareDate(4, 1), NoDate, NoDate),
      Entry(LinkPostC, TitleTech, <<>>, SummaryModel, NoDate, NoDate, NoDate),
      Entry(LinkA1, TitleTech, <<>>, <<>>, Garbage, NaiveDate(3), NoDate),
      Entry(LinkA1, TitlePolicy, SummaryModel, <<>>, NoDate, NoDate, NaiveDate(1)),
      Entry(LinkA2, TitleMarket, <<>>, <<>>, NaiveDate(1), NaiveDate(3), NoDate),
      Entry(LinkPostB, TitleOther, <<>>, <<>>, NaiveDate(1), NoDate, NoDate),
      Entry(<<>>, TitleMarket, <<>>, <<>>, NaiveDate(1), NoDate, NoDate),
      Entry(LinkA2, <<>>, SummaryModel, <<>>, NaiveDate(1), NoDate, NoDate),
      Entry(LinkBad, TitleTech, <<>>, <<>>, NaiveDate(1), NoDate, NoDate) }

(***************************************************************************)
(* collect_candidates                                                      *)
(***************************************************************************)
\* e.get("summary", "") or e.get("description", "") or "", tags stripped
entry_summary(en) ==
    strip_html(IF Len(en.summary) > 0 THEN en.summary ELSE en.description)

\* what the loop body computes from an entry alone, given nurl, t, summary and
\* pick_published(e)
facts_of(nurl, t, summary, published) ==
    [nurl      |-> nurl,
     t         |-> t,
     summary   |-> summary,
     relevant  |-> looks_ai_related(t, summary),
     bucket    |-> infer_bucket(t, summary),
     published |-> published]

\* nurl = normalize_url(link), t = strip_html(str(title)), summary,
\* looks_ai_related(t, summary), infer_bucket(t, summary), pick_published(e),
\* tabulated over the entries of the model
EntryFactsTable ==
    { <<en, facts_of(normalize_url(en.link), strip_html(en.title),
                     entry_summary(en), pick_published(en))>> : en \in EntryPool }

EntryFacts(en) == (CHOOSE p \in EntryFactsTable : p[1] = en)[2]

\* source_priority(name), tabulated over the feed names of the model
FeedPriorityTable == { <<n, source_priority(FeedChars[n])>> : n \in DOMAIN FeedChars }

FeedPriority(n) == (CHOOSE p \in FeedPriorityTable : p[1] = n)[2]

\* the dict appended to items, given what was computed from the entry
candidate_of(name, f) ==
    [source         |-> name,
     original_title |-> f.t,
     original_url   |-> f.nurl,
     published_at   |-> IF f.published # <<>> THEN f.published[1] ELSE Now,
     summary_raw    |-> SubSeq(f.summary, 1, Min(SUMMARY_RAW_LIMIT, Len(f.summary))),
     bucket         |-> f.bucket,
     priority       |-> FeedPriority(name)]

\* the dict appended to items for an entry of the feed called name
candidate(name, en) == candidate_of(name, EntryFacts(en))

\* the loop body from normalize_url on, without the test on seen_urls
handle_linked_no_dedup(name, f, its, seen) ==
    IF f.nurl = ValueError
    THEN [raised |-> TRUE, items |-> its, seen_urls |-> seen]
    ELSE IF ~f.relevant
    THEN [raised |-> FALSE, items |-> its, seen_urls |-> seen]
    ELSE [raised |-> FALSE,
          items |-> Append(its, candidate_of(name, f)),
          seen_urls |-> seen \cup {f.nurl}]

\* the body of the loop over entries without the test on seen_urls
handle_entry_no_dedup(name, en, its, seen) ==
    IF Len(en.link) = 0 \/ Len(en.title) = 0
    THEN [raised |-> FALSE, items |-> its, seen_urls |-> seen]
    ELSE handle_linked_no_dedup(name, EntryFacts(en), its, seen)

\* the loop body from normalize_url on, with the URL marked as seen before the
\* relevance test
handle_linked_seen_early(name, f, its, seen) ==
    IF f.nurl = ValueError
    THEN [raised |-> TRUE, items |-> its, seen_urls |-> seen]
    ELSE IF f.nurl \in seen
    THEN [raised |-> FALSE, items |-> its, seen_urls |-> seen]
    ELSE IF ~f.relevant
    THEN [raised |-> FALSE, items |-> its, seen_urls |-> seen \cup {f.nurl}]
    ELSE [raised |-> FALSE,
          items |-> Append(its, candidate_of(name, f)),
          seen_urls |-> seen \cup {f.nurl}]

\* the body of the loop over entries with the URL marked as seen before the
\* relevance test
handle_entry_seen_early(name, en, its, seen) ==
    IF Len(en.link) = 0 \/ Len(en.title) = 0
    THEN [raised |-> FALSE, items |-> its, seen_urls |-> seen]
    ELSE handle_linked_seen_early(name, EntryFacts(en), its, seen)

\* the loop body from nurl = normalize_url(link) on, f being what is computed
\* from the entry: the new items and seen_urls, and whether an exception left
\* the loop
handle_linked(name, f, its, seen) ==
    IF f.nurl = ValueError
    THEN [raised |-> TRUE, items |-> its, seen_urls |-> seen]
    ELSE IF f.nurl \in seen
    THEN [raised |-> FALSE, items |-> its, seen_urls |-> seen]
    ELSE IF ~f.relevant
    THEN [raised |-> FALSE, items |-> its, seen_urls |-> seen]
    ELSE [raised |-> FALSE,
          items |-> Append(its, candidate_of(name, f)),
          seen_urls |-> seen \cup {f.nurl}]

\* the body of the loop over entries[:PER_FEED_LIMIT] for one entry
handle_entry(name, en, its, seen) ==
    IF Len(en.link) = 0 \/ Len(en.title) = 0
    THEN [raised |-> FALSE, items |-> its, seen_urls |-> seen]
    ELSE handle_linked(name, EntryFacts(en), its, seen)

\* history only: whether what was computed from an entry has a link that
\* parses and an AI related text
acceptable_facts(f) == f.nurl # ValueError /\ f.relevant

\* history only: whether an entry has a link and a title, a link that parses
\* and an AI related text
Acceptable(en) ==
    Len(en.link) > 0 /\ Len(en.title) > 0 /\ acceptable_facts(EntryFacts(en))

\* history only: c added unless a candidate with its URL was offered before
offer(was, c) ==
    IF \A x \in was : x.original_url # c.original_url THEN was \cup {c} ELSE was

\* dt(x) of the sort: published_at is the isoformat of an instant and parses
\* back to it
dt(x) == x.published_at

\* whether the sort key (priority, -timestamp) of a is <= that of b
sort_key_le(a, b) ==
    \/ a.priority < b.priority
    \/ a.priority = b.priority /\ -dt(a) <= -dt(b)

\* list.sort keeps the order of items with equal keys: x goes behind every
\* item whose key is <= its own
RECURSIVE list_sort(_)
list_sort(its) ==
    IF Len(its) = 0 THEN <<>>
    ELSE LET done == list_sort(SubSeq(its, 1, Len(its) - 1))
             x    == its[Len(its)]
             n    == Cardinality({i \in 1..Len(done) : sort_key_le(done[i], x)})
         IN  SubSeq(done, 1, n) \o <<x>> \o SubSeq(done, n + 1, Len(done))

\* a sort that forgets the priority: by published_at alone
RECURSIVE list_sort_by_date(_)
list_sort_by_date(its) ==
    IF Len(its) = 0 THEN <<>>
    ELSE LET done == list_sort_by_date(SubSeq(its, 1, Len(its) - 1))
             x    == its[Len(its)]
             n    == Cardinality({i \in 1..Len(done) : -dt(done[i]) <= -dt(x)})
         IN  SubSeq(done, 1, n) \o <<x>> \o SubSeq(done, n + 1, Len(done))

sorted_by_date_and_truncated(its) ==
    LET sorted == list_sort_by_date(its)
    IN  SubSeq(sorted, 1, Min(TOTAL_CANDIDATES, Len(sorted)))

\* items.sort(key=...); return items[:TOTAL_CANDIDATES]
sorted_and_truncated(its) ==
    LET sorted == list_sort(its)
    IN  SubSeq(sorted, 1, Min(TOTAL_CANDIDATES, Len(sorted)))

IdleCollect ==
    /\ feed_i = 1 /\ todo = 0 /\ e = NoEntry /\ items = <<>> /\ seen_urls = {}
    /\ warned = {} /\ offered = {}

IdlePick ==
    /\ cands = <<>> /\ picked = <<>> /\ used_sources = {} /\ bucket_i = 1

NoResponse == [outcome |-> "not called", shape |-> "", items |-> <<>>, date_iso |-> ""]
NoPayload == [version |-> ""]
NoFiles == [today |-> NoPayload, archive |-> NoPayload, archive_name |-> ""]

IdleEnrich ==
    /\ structured = NoResponse /\ payload = NoPayload /\ files = NoFiles

IdleNormalize ==
    /\ npc = "start" /\ rawA = <<>> /\ rawB = <<>> /\ diff = {}
    /\ keyA = <<>> /\ keyB = <<>>

IdleMain ==
    /\ pc = "idle" /\ api_key = FALSE
    /\ IdleCollect /\ IdlePick /\ IdleEnrich

\* fetch_feed returns a feed
FetchFeed ==
    /\ pc = "fetch" /\ feed_i <= NumFeeds
    /\ \E n \in 0..MaxFeedEntries : todo' = Min(n, PER_FEED_LIMIT)
    /\ pc' = "entries"
    /\ UNCHANGED <<feed_i, e, items, seen_urls, warned, offered>>
    /\ UNCHANGED <<api_key, kvars, mvars, nvars>>

\* fetch_feed raises (network error, HTTP status): the except clause warns
\* and the for loop goes on with the next feed
FetchFeedFails ==
    /\ pc = "fetch" /\ feed_i <= NumFeeds
    /\ warned' = warned \cup {AI_TECH_RSS_FEEDS[feed_i]}
    /\ feed_i' = feed_i + 1
    /\ UNCHANGED <<pc, todo, e, items, seen_urls, offered>>
    /\ UNCHANGED <<api_key, kvars, mvars, nvars>>

\* one turn of the loop over entries[:PER_FEED_LIMIT]; an exception in it
\* reaches the same except clause
ProcessEntry ==
    /\ pc = "entries" /\ todo > 0
    /\ \E en \in EntryPool :
          LET name == AI_TECH_RSS_FEEDS[feed_i]
              r    == handle_entry(name, en, items, seen_urls)
          IN  /\ e' = en
              /\ items' = r.items
              /\ seen_urls' = r.seen_urls
              /\ IF r.raised
                 THEN /\ warned' = warned \cup {name}
                      /\ feed_i' = feed_i + 1
                      /\ todo' = 0
                      /\ pc' = "fetch"
                 ELSE /\ todo' = todo - 1
                      /\ UNCHANGED <<warned, feed_i, pc>>
              /\ offered' = IF Acceptable(en) THEN offer(offered, candidate(name, en))
                            ELSE offered
    /\ UNCHANGED <<api_key, kvars, mvars, nvars>>

\* the entries are exhausted: time.sleep, then the next feed
EndFeed ==
    /\ pc = "entries" /\ todo = 0
    /\ feed_i' = feed_i + 1
    /\ pc' = "fetch"
    /\ UNCHANGED <<todo, e, items, seen_urls, warned, offered>>
    /\ UNCHANGED <<api_key, kvars, mvars, nvars>>

\* after the last feed: sort, truncate, return to main (items and seen_urls
\* keep their last values until pick_three_diverse starts)
SortAndReturn ==
    /\ pc = "fetch" /\ feed_i > NumFeeds
    /\ cands' = sorted_and_truncated(items)
    /\ pc' = "collected"
    /\ UNCHANGED <<picked, used_sources, bucket_i>>
    /\ UNCHANGED <<api_key, cvars, mvars, nvars>>

(***************************************************************************)
(* pick_three_diverse                                                      *)
(***************************************************************************)
BUCKETS == <<"market", "policy", "tech">>

\* a first loop that does not look at used_sources
first_match_any_source(cs, used, bucket) ==
    LET hits == {i \in 1..Len(cs) : cs[i].bucket = bucket}
    IN  IF hits = {} THEN 0 ELSE CHOOSE i \in hits : \A j \in hits : i <= j

\* a first loop that does not look at the bucket
first_match_any_bucket(cs, used, bucket) ==
    LET hits == {i \in 1..Len(cs) : cs[i].source \notin used}
    IN  IF hits = {} THEN 0 ELSE CHOOSE i \in hits : \A j \in hits : i <= j

\* the first loop's inner for: the index of the first candidate of the bucket
\* whose source is not used, 0 when the loop ends without a break
first_match(cs, used, bucket) ==
    LET hits == {i \in 1..Len(cs) : cs[i].source \notin used /\ cs[i].bucket = bucket}
    IN  IF hits = {} THEN 0 ELSE CHOOSE i \in hits : \A j \in hits : i <= j

\* no second loop
fill_remaining_nothing(cs, p, used) == p

\* the second loop: candidates in order, those of unused sources appended,
\* until there are three
RECURSIVE fill_remaining(_, _, _)
fill_remaining(cs, p, used) ==
    IF Len(cs) = 0 THEN p
    ELSE IF cs[1].source \in used THEN fill_remaining(Tail(cs), p, used)
    ELSE IF Len(p) + 1 = 3 THEN Append(p, cs[1])
    ELSE fill_remaining(Tail(cs), Append(p, cs[1]), used \cup {cs[1].source})

\* main calls pick_three_diverse(cands): picked = [], used_sources = set()
StartPick ==
    /\ pc = "collected"
    /\ picked' = <<>>
    /\ used_sources' = {}
    /\ bucket_i' = 1
    /\ pc' = "pick_buckets"
    \* the locals of collect_candidates are gone
    /\ feed_i' = 1 /\ todo' = 0 /\ e' = NoEntry /\ items' = <<>> /\ seen_urls' = {}
    /\ offered' = {}
    /\ UNCHANGED <<cands, warned>>
    /\ UNCHANGED <<api_key, mvars, nvars>>

\* one turn of: for bucket in ["market", "policy", "tech"]
PickBucket ==
    /\ pc = "pick_buckets" /\ bucket_i <= Len(BUCKETS)
    /\ LET i == first_match(cands, used_sources, BUCKETS[bucket_i]) IN
          IF i = 0
          THEN UNCHANGED <<picked, used_sources>>
          ELSE /\ picked' = Append(picked, cands[i])
               /\ used_sources' = used_sources \cup {cands[i].source}
    /\ bucket_i' = bucket_i + 1
    /\ pc' = IF bucket_i = Len(BUCKETS) THEN "pick_fill" ELSE "pick_buckets"
    /\ UNCHANGED <<cands>>
    /\ UNCHANGED <<api_key, cvars, mvars, nvars>>

\* if len(picked) < 3: the second loop; return picked[:3]
FillAndReturn ==
    /\ pc = "pick_fill"
    /\ LET p == IF Len(picked) < 3 THEN fill_remaining(cands, picked, used_sources)
                ELSE picked
       IN  /\ picked' = SubSeq(p, 1, Min(3, Len(p)))
           /\ used_sources' = {p[i].source : i \in 1..Len(p)}
    /\ pc' = "picked"
    /\ UNCHANGED <<cands, bucket_i>>
    /\ UNCHANGED <<api_key, cvars, mvars, nvars>>

(***************************************************************************)
(* openai_structurize, fallback_payload, main                              *)
(***************************************************************************)
FALLBACK_VERSION == "B1-RSS-Fallback-1.0"
OPENAI_VERSION == "B1-RSS-OpenAI-1.0"
TODAY == "today"

\* an item of the analysis service's answer: a JSON object that names a
\* source and a URL, or some other JSON value
LlmItem(kind, source, url) == [kind |-> kind, source |-> source, original_url |-> url]

Fabricated == <<"h","t","t","p","s",":","/","/","x",".","a","i">>

\* the answers of n items the model lets the service give for the articles:
\* echoing them in order (padded with made-up items), made up, without a
\* source, or not JSON objects
AnswerItems(articles, n, style) ==
    AsTuple([i \in 1..n |->
        IF style = "echo" /\ i <= Len(articles)
            THEN LlmItem("dict", articles[i].source, articles[i].original_url)
        ELSE IF style = "nosource" THEN LlmItem("dict", "", Fabricated)
        ELSE IF style = "nondict" THEN LlmItem("string", "", <<>>)
        ELSE LlmItem("dict", "Some Blog", Fabricated)])

\* what openai_structurize(picked) can do once the key is set: raise (network,
\* HTTP status, KeyError, JSONDecodeError) or return the parsed JSON value
Answers(articles) ==
    { [outcome |-> "raised", shape |-> "", items |-> <<>>, date_iso |-> ""] }
    \cup { [outcome |-> "returned", shape |-> sh, items |-> <<>>, date_iso |-> ""] :
             sh \in {"not a dict", "dict without items", "items not a list"} }
    \cup { [outcome |-> "returned", shape |-> "items list",
            items |-> AnswerItems(articles, n, style), date_iso |-> ""] :
             n \in 0..MaxItems, style \in {"echo", "made up", "nosource", "nondict"} }
    \cup { [outcome |-> "returned", shape |-> "items list",
            items |-> AnswerItems(articles, n, "echo"), date_iso |-> "declared"] :
             n \in 0..MaxItems }

\* mk(a) of fallback_payload
mk(a) ==
    LET one == SubSeq(a.summary_raw, 1, Min(60, Len(a.summary_raw)))
        fact == SubSeq(a.summary_raw, 1, Min(50, Len(a.summary_raw)))
    IN  [impact_level     |-> "Medium",
         importance_score |-> 60,
         score_breakdown  |-> [market_impact |-> 20, business_impact |-> 20,
                               japan_relevance |-> 15, confidence |-> 5],
         title_ja         |-> SubSeq(a.original_title, 1, Min(30, Len(a.original_title))),
         one_sentence     |-> IF Len(one) > 0 THEN one ELSE <<"no summary">>,
         fact_summary     |-> <<IF Len(fact) > 0 THEN fact ELSE <<"no information">>,
                                <<"see the link">> >>,
         original_title   |-> a.original_title,
         original_url     |-> a.original_url,
         published_at     |-> a.published_at,
         source           |-> a.source]

\* fallback_payload(picked); sources is sorted(list(set)), kept as the set
fallback_payload(articles) ==
    [date_iso |-> TODAY,
     items    |-> AsTuple([i \in 1..Len(articles) |-> mk(articles[i])]),
     version  |-> FALLBACK_VERSION,
     sources  |-> {articles[i].source : i \in 1..Len(articles)}]

\* a main that takes any list of items from the service
build_payload_any_count(st, articles) ==
    IF st.outcome = "returned" /\ st.shape = "items list"
          /\ \A i \in 1..Len(st.items) : st.items[i].kind = "dict"
    THEN [date_iso |-> st.date_iso, items |-> st.items, version |-> OPENAI_VERSION,
          sources  |-> {st.items[i].source : i \in 1..Len(st.items)} \ {""}]
    ELSE fallback_payload(articles)

\* the try block of main after the call: the structured payload when the
\* answer is a dict whose items is a list of 3, else the fallback; an item
\* that is no dict makes it.get raise, which the except clause turns into
\* the fallback
build_payload(st, articles) ==
    IF st.outcome = "raised" THEN fallback_payload(articles)
    ELSE IF st.outcome = "returned" /\ st.shape = "items list" /\ Len(st.items) = 3
    THEN IF \E i \in 1..3 : st.items[i].kind # "dict"
         THEN fallback_payload(articles)
         ELSE [date_iso |-> st.date_iso,
               items    |-> st.items,
               version  |-> OPENAI_VERSION,
               sources  |-> {st.items[i].source : i \in 1..3} \ {""}]
    ELSE fallback_payload(articles)

\* structured = openai_structurize(picked): None without a key
CallAnalysis ==
    /\ pc = "picked"
    /\ IF ~api_key
       THEN structured' = [outcome |-> "returned", shape |-> "None", items |-> <<>>,
                           date_iso |-> ""]
       ELSE structured' \in Answers(picked)
    /\ pc' = "called"
    /\ UNCHANGED <<payload, files>>
    /\ UNCHANGED <<api_key, cvars, kvars, nvars>>

\* the rest of the try block and its except clause
BuildPayload ==
    /\ pc = "called"
    /\ payload' = build_payload(structured, picked)
    /\ pc' = "built"
    /\ UNCHANGED <<structured, files>>
    /\ UNCHANGED <<api_key, cvars, kvars, nvars>>

\* date_iso = payload.get("date_iso") or today
archive_date(pl) == IF pl.date_iso # "" THEN pl.date_iso ELSE TODAY

\* write_json(payload, OUT_PATH)
WriteToday ==
    /\ pc = "built"
    /\ files' = [files EXCEPT !.today = payload]
    /\ pc' = "wrote today"
    /\ UNCHANGED <<structured, payload>>
    /\ UNCHANGED <<api_key, cvars, kvars, nvars>>

\* write_json(payload, archive path)
WriteArchive ==
    /\ pc = "wrote today"
    /\ files' = [files EXCEPT !.archive = payload, !.archive_name = archive_date(payload)]
    /\ pc' = "done"
    /\ UNCHANGED <<structured, payload>>
    /\ UNCHANGED <<api_key, cvars, kvars, nvars>>

(***************************************************************************)
(* The run of main().                                                      *)
(***************************************************************************)
Init ==
    /\ IdleNormalize
    /\ pc = "fetch"
    /\ api_key \in BOOLEAN
    /\ IdleCollect /\ IdlePick /\ IdleEnrich

Next ==
    \/ FetchFeed \/ FetchFeedFails \/ ProcessEntry \/ EndFeed \/ SortAndReturn
    \/ StartPick \/ PickBucket \/ FillAndReturn
    \/ CallAnalysis \/ BuildPayload \/ WriteToday \/ WriteArchive

Spec == Init /\ [][Next]_vars

(***************************************************************************)
(* normalize_url on pairs of links built from parts.                       *)
(***************************************************************************)
SchemeParts == { https, <<"H","T","T","P","S">>, http }
HostParts == { <<"e","x","a","m","p","l","e",".","c","o","m">>,
               <<"E","x","a","m","p","l","e",".","c","o","m">> }
PathParts == { <<>>, <<"/","a">>, <<"/","a","/">>, <<"/","A">> }
QueryParts ==
    { <<>>,
      << <<<<"b">>, <<"1">>>> >>,
      << <<<<"B">>, <<"1">>>> >>,
      << <<<<"u","t","m","_","s","o","u","r","c","e">>, <<"x">>>>, <<<<"b">>, <<"1">>>> >>,
      << <<<<"b">>, <<"1">>>>, <<<<"U","T","M","_","x">>, <<"y">>>> >> }

UrlParts == [scheme : SchemeParts, host : HostParts, path : PathParts, query : QueryParts]

\* the link a browser would show for the parts
Render(p) ==
    p.scheme \o <<":", "/", "/">> \o p.host \o p.path
        \o (IF Len(p.query) = 0 THEN <<>>
            ELSE <<"?">> \o str_join(AsTuple([i \in 1..Len(p.query) |->
                                        p.query[i][1] \o <<"=">> \o p.query[i][2]]), <<"&">>))

IsUtm(kv) == str_startswith(str_lower(kv[1]), utm_prefix)
NonUtm(q) == LET Keep(kv) == ~IsUtm(kv) IN SelectSeq(q, Keep)
LowerPairs(q) == AsTuple([i \in 1..Len(q) |-> <<str_lower(q[i][1]), str_lower(q[i][2])>>])

\* in which ways two links differ, part by part
Differences(a, b) ==
    LET ra == str_rstrip(a.path, "/")
        rb == str_rstrip(b.path, "/")
    IN  (IF a.scheme # b.scheme /\ str_lower(a.scheme) = str_lower(b.scheme)
            THEN {"scheme_case"} ELSE {})
        \cup (IF str_lower(a.scheme) # str_lower(b.scheme) THEN {"scheme"} ELSE {})
        \cup (IF a.host # b.host /\ str_lower(a.host) = str_lower(b.host)
                 THEN {"host_case"} ELSE {})
        \cup (IF Len(a.path) - Len(ra) # Len(b.path) - Len(rb)
                 THEN {"trailing_slash"} ELSE {})
        \cup (IF ra # rb /\ str_lower(ra) = str_lower(rb) THEN {"path_case"} ELSE {})
        \cup (IF str_lower(ra) # str_lower(rb) THEN {"path"} ELSE {})
        \cup (IF a.query # b.query /\ SelectSeq(a.query, IsUtm) # SelectSeq(b.query, IsUtm)
                 THEN {"utm"} ELSE {})
        \cup (IF NonUtm(a.query) # NonUtm(b.query)
                    /\ LowerPairs(NonUtm(a.query)) = LowerPairs(NonUtm(b.query))
                 THEN {"query_case"} ELSE {})
        \cup (IF LowerPairs(NonUtm(a.query)) # LowerPairs(NonUtm(b.query))
                 THEN {"query"} ELSE {})

InitNormalize == IdleNormalize /\ IdleMain

ChooseLinks ==
    /\ npc = "start"
    /\ \E a \in UrlParts, b \in UrlParts :
          /\ rawA' = Render(a)
          /\ rawB' = Render(b)
          /\ diff' = Differences(a, b)
    /\ npc' = "chosen"
    /\ UNCHANGED <<keyA, keyB>>
    /\ UNCHANGED pvars

Normalize ==
    /\ npc = "chosen"
    /\ keyA' = normalize_url(rawA)
    /\ keyB' = normalize_url(rawB)
    /\ npc' = "normalized"
    /\ UNCHANGED <<rawA, rawB, diff>>
    /\ UNCHANGED pvars

NextNormalize == ChooseLinks \/ Normalize

SpecNormalize == InitNormalize /\ [][NextNormalize]_vars

C4_UrlA == <<"h","t","t","p","s",":","/","/","e","x","a","m","p","l","e",".","c","o","m","/","a","?","u","t","m","_","s","o","u","r","c","e","=","x","&","b","=","1">>
C4_UrlB == <<"h","t","t","p","s",":","/","/","e","x","a","m","p","l","e",".","c","o","m","/","a","/","?","B","=","1">>
C4_Key == <<"h","t","t","p","s",":","/","/","e","x","a","m","p","l","e",".","c","o","m","/","a","?","b","=","1">>
C4_KeyB == <<"h","t","t","p","s",":","/","/","e","x","a","m","p","l","e",".","c","o","m","/","a","?","B","=","1">>

\* C4 as stated: the two example links share the key https://example.com/a?b=1,
\* and links that differ only in letter case, trailing slash and utm_*
\* parameters share their key.
C4_SameKeyModuloAnyCase ==
    npc = "normalized" =>
        /\ (rawA = C4_UrlA /\ rawB = C4_UrlB => keyA = C4_Key /\ keyB = C4_Key)
        /\ (diff \subseteq {"scheme_case", "host_case", "path_case", "query_case",
                            "trailing_slash", "utm"} => keyA = keyB)

\* C4 (amended): only the scheme and the host are case-folded.  Links that
\* differ only in the letter case of scheme or host, in trailing slashes of the
\* path and in utm_* parameters share their key; a difference of letter case in
\* the path or in a kept query parameter gives different keys, so
\* https://example.com/a?utm_source=x&b=1 has the key https://example.com/a?b=1
\* and https://example.com/a/?B=1 has the key https://example.com/a?B=1.
C4_SameKeyModuloHostCase ==
    npc = "normalized" =>
        /\ (rawA = C4_UrlA => keyA = C4_Key)
        /\ (rawB = C4_UrlB => keyB = C4_KeyB)
        /\ (diff \subseteq {"scheme_case", "host_case", "trailing_slash", "utm"}
                => keyA = keyB)
        /\ (diff \cap {"path_case", "query_case"} # {} => keyA # keyB)

\* the two example links of C4 have been normalized
C4_Witness ==
    npc = "normalized" /\ rawA = C4_UrlA /\ rawB = C4_UrlB

\* two links differing in host case, trailing slash and a utm parameter at once
C4_WitnessGeneral ==
    npc = "normalized" /\ diff = {"host_case", "trailing_slash", "utm"} /\ keyA = keyB

(***************************************************************************)
(* pick_three_diverse on arbitrary candidate sequences.                    *)
(***************************************************************************)
MaxCands == 4

PickSources == {"OpenAI", "Anthropic", "TechCrunch AI", "ITmedia AI+"}

\* the i-th candidate of a sequence handed to pick_three_diverse: a dict with
\* the keys collect_candidates gives it, its URL telling it from the others
PickCandidate(i, source, bucket) ==
    [source         |-> source,
     original_title |-> <<"t">>,
     original_url   |-> <<"u", DigitChars[i + 1]>>,
     published_at   |-> Now,
     summary_raw    |-> <<>>,
     bucket         |-> bucket,
     priority       |-> FeedPriority(source)]

Sources(cs) == {cs[i].source : i \in 1..Len(cs)}

InitPick ==
    /\ IdleNormalize
    /\ pc = "collected"
    /\ api_key = FALSE
    /\ IdleCollect /\ IdleEnrich
    /\ picked = <<>> /\ used_sources = {} /\ bucket_i = 1
    /\ \E n \in 0..MaxCands :
          \E src \in [1..n -> PickSources], bkt \in [1..n -> {"market", "policy", "tech"}] :
             cands = AsTuple([i \in 1..n |-> PickCandidate(i, src[i], bkt[i])])

NextPick == StartPick \/ PickBucket \/ FillAndReturn

SpecPick == InitPick /\ [][NextPick]_vars

\* C1: whatever candidate sequence pick_three_diverse is given, no two members
\* of the Selection it returns have the same source.
C1_SourcesPairwiseDistinct ==
    pc = "picked" =>
        \A i \in 1..Len(picked), j \in 1..Len(picked) :
            i # j => picked[i].source # picked[j].source

\* a Selection of three was returned for a sequence in which a source occurs
\* twice
C1_Witness ==
    /\ pc = "picked" /\ Len(picked) = 3
    /\ \E i \in 1..Len(cands), j \in 1..Len(cands) :
          i < j /\ cands[i].source = cands[j].source

\* C2: the Selection returned by pick_three_diverse has min(3, number of
\* distinct sources of the candidate sequence) members, whatever the buckets.
C2_SizeIsMinOfThreeAndSources ==
    pc = "picked" => Len(picked) = Min(3, Cardinality(Sources(cands)))

\* a Selection of three was returned although no candidate is in the tech
\* bucket and every policy candidate comes from the source of the market pick
C2_Witness ==
    /\ pc = "picked" /\ Len(picked) = 3
    /\ \A i \in 1..Len(cands) : cands[i].bucket # "tech"
    /\ picked[1].bucket = "market"
    /\ \E i \in 1..Len(cands) : cands[i].bucket = "policy"
    /\ \A i \in 1..Len(cands) :
          cands[i].bucket = "policy" => cands[i].source = picked[1].source

\* a Selection of two was returned: the sequence has two sources
C2_WitnessShort ==
    pc = "picked" /\ Len(picked) = 2 /\ Len(cands) > 2

\* the index of the first candidate of a bucket, 0 when there is none
FirstOfBucket(cs, bucket) ==
    IF \A i \in 1..Len(cs) : cs[i].bucket # bucket THEN 0
    ELSE CHOOSE i \in 1..Len(cs) :
            cs[i].bucket = bucket /\ \A j \in 1..(i - 1) : cs[j].bucket # bucket

\* the sequence holds a market, a policy and a tech candidate of pairwise
\* distinct sources
HasCoveringTriple(cs) ==
    \E i \in 1..Len(cs), j \in 1..Len(cs), k \in 1..Len(cs) :
        /\ cs[i].bucket = "market" /\ cs[j].bucket = "policy" /\ cs[k].bucket = "tech"
        /\ cs[i].source # cs[j].source /\ cs[i].source # cs[k].source
        /\ cs[j].source # cs[k].source

\* C10 as stated: whenever the candidate sequence holds a market, a policy and
\* a tech candidate from pairwise distinct sources, the Selection is one
\* candidate of each bucket in the order market, policy, tech.
C10_CoverageWheneverPossible ==
    pc = "picked" /\ HasCoveringTriple(cands) =>
        /\ Len(picked) = 3
        /\ picked[1].bucket = "market"
        /\ picked[2].bucket = "policy"
        /\ picked[3].bucket = "tech"

\* C10 (amended): the first loop is greedy.  When the first market candidate,
\* the first policy candidate and the first tech candidate of the sequence come
\* from pairwise distinct sources, the Selection is exactly these three, in the
\* order market, policy, tech.
C10_CoverageWhenFirstsDiffer ==
    LET m == FirstOfBucket(cands, "market")
        p == FirstOfBucket(cands, "policy")
        t == FirstOfBucket(cands, "tech")
    IN  (/\ pc = "picked" /\ m > 0 /\ p > 0 /\ t > 0
         /\ cands[m].source # cands[p].source
         /\ cands[m].source # cands[t].source
         /\ cands[p].source # cands[t].source)
        => picked = <<cands[m], cands[p], cands[t]>>

\* the three firsts come from distinct sources and the sequence lists them
\* tech first, market last, with a fourth candidate among them
C10_Witness ==
    LET m == FirstOfBucket(cands, "market")
        p == FirstOfBucket(cands, "policy")
        t == FirstOfBucket(cands, "tech")
    IN  /\ pc = "picked" /\ Len(cands) = 4 /\ m > 0 /\ p > 0 /\ t > 0
        /\ t < p /\ p < m
        /\ Cardinality({cands[m].source, cands[p].source, cands[t].source}) = 3

(***************************************************************************)
(* Properties of one run of main().                                        *)
(***************************************************************************)
Collecting == pc \in {"fetch", "entries", "collected"}

Urls(its) == {its[i].original_url : i \in 1..Len(its)}

Elems(its) == {its[i] : i \in 1..Len(its)}

\* C3: whatever the feeds hold and whichever of them fail, no two candidates
\* accumulated or returned by collect_candidates have the same normalized URL,
\* and the candidate kept for a normalized URL is the first visited entry,
\* feed by feed and entry by entry, that has a link and a title and is
\* relevant.
C3_FirstSeenWinsNoDuplicates ==
    Collecting =>
        /\ \A i \in 1..Len(items), j \in 1..Len(items) :
              i # j => items[i].original_url # items[j].original_url
        /\ Elems(items) = offered
        /\ seen_urls = Urls(items)
        /\ pc = "collected" =>
              /\ Elems(cands) \subseteq offered
              /\ \A i \in 1..Len(cands), j \in 1..Len(cands) :
                    i # j => cands[i].original_url # cands[j].original_url

\* collect_candidates has returned after a feed failed, and the last entry it
\* visited was relevant but lost to an earlier entry with the same normalized
\* URL and another title
C3_Witness ==
    /\ pc = "collected" /\ warned # {} /\ Len(cands) >= 2
    /\ Acceptable(e)
    /\ \E i \in 1..Len(items) :
          /\ items[i].original_url = EntryFacts(e).nurl
          /\ items[i].original_title # EntryFacts(e).t

KeyPostUpper == <<"h","t","t","p","s",":","/","/","e","x","a","m","p","l","e",".","c","o","m","/","P","o","s","t">>
KeyPostLower == <<"h","t","t","p","s",":","/","/","e","x","a","m","p","l","e",".","c","o","m","/","p","o","s","t">>

\* the dedup keys of the three links
KeyOfPostA == normalize_url(LinkPostA)
KeyOfPostB == normalize_url(LinkPostB)
KeyOfPostC == normalize_url(LinkPostC)

\* the indices of the candidates whose normalized URL is in keys
WithKey(its, keys) == {i \in 1..Len(its) : its[i].original_url \in keys}

\* C5 as stated: http://Example.com/Post/?utm_campaign=x and
\* https://example.com/post normalize to the same key, and of a relevant entry
\* with the first link and a later relevant entry with the second link only one
\* candidate is kept.
C5_PostLinksShareKey ==
    (Collecting /\ e.link = LinkPostB /\ Acceptable(e)
        /\ WithKey(items, {KeyOfPostA}) # {}) =>
        /\ KeyOfPostA = KeyOfPostB
        /\ Cardinality(WithKey(items, {KeyOfPostA, KeyOfPostB})) = 1

\* C5 (amended): the path keeps its letter case, so
\* http://Example.com/Post/?utm_campaign=x has the key https://example.com/Post
\* and https://example.com/post has the key https://example.com/post: a
\* relevant entry with the second link that follows a relevant entry with the
\* first gives a second candidate.  With http://Example.com/post/?utm_campaign=x
\* as the first link both keys are https://example.com/post and only the
\* first-seen entry is a candidate.
C5_PostLinksDifferInPathCase ==
    /\ KeyOfPostA = KeyPostUpper
    /\ KeyOfPostB = KeyPostLower
    /\ KeyOfPostC = KeyPostLower
    /\ (Collecting /\ e.link = LinkPostB /\ Acceptable(e)) =>
          /\ Cardinality(WithKey(items, {KeyPostLower})) = 1
          /\ \A i \in WithKey(items, {KeyPostLower}) : items[i] \in offered
          /\ WithKey(items, {KeyPostUpper}) # {} =>
                Cardinality(WithKey(items, {KeyPostUpper, KeyPostLower})) = 2

\* the first feed gave the entry with http://Example.com/Post/?utm_campaign=x,
\* the second feed the entry with https://example.com/post, and both are
\* candidates
C5_Witness ==
    /\ pc = "entries" /\ feed_i = 2
    /\ e.link = LinkPostB /\ Acceptable(e)
    /\ Len(items) = 2
    /\ items[1].original_url = KeyPostUpper /\ items[1].source = AI_TECH_RSS_FEEDS[1]
    /\ items[2].original_url = KeyPostLower /\ items[2].source = AI_TECH_RSS_FEEDS[2]

\* the first feed gave the entry with http://Example.com/post/?utm_campaign=x,
\* a later entry has https://example.com/post, and only the first is a
\* candidate
C5_WitnessSameKey ==
    /\ pc = "entries" /\ feed_i = 2
    /\ e.link = LinkPostB /\ Acceptable(e)
    /\ Len(items) = 1
    /\ items[1].source = AI_TECH_RSS_FEEDS[1]
    /\ items[1].original_title # EntryFacts(e).t

\* the answer main takes for the structured payload
Usable(st) ==
    st.outcome = "returned" /\ st.shape = "items list" /\ Len(st.items) = 3

Built == pc \in {"built", "wrote today", "done"}

\* C6: the payload carries the version of the structured variant only if the
\* key is set and the call returned a JSON object whose items is a list of 3;
\* in every other case it is the fallback payload, built from every member of
\* the Selection and tagged with the fallback version; and the run goes on to
\* write both files.
C6_FallbackUnlessThreeItems ==
    /\ Built =>
          /\ payload.version \in {OPENAI_VERSION, FALLBACK_VERSION}
          /\ payload.version = OPENAI_VERSION => api_key /\ Usable(structured)
          /\ ~(api_key /\ Usable(structured)) =>
                /\ payload = fallback_payload(picked)
                /\ payload.version = FALLBACK_VERSION
                /\ Len(payload.items) = Len(picked)
                /\ \A i \in 1..Len(picked) :
                      /\ payload.items[i].source = picked[i].source
                      /\ payload.items[i].original_url = picked[i].original_url
    /\ pc = "called" => ENABLED BuildPayload
    /\ pc = "built" => ENABLED WriteToday
    /\ pc = "wrote today" => ENABLED WriteArchive
    /\ pc = "done" => files.today = payload /\ files.archive = payload

\* the service returned 2 items for a Selection of 3 and the run has written
\* the fallback payload with 3 items
C6_Witness ==
    /\ pc = "done" /\ api_key
    /\ structured.outcome = "returned" /\ structured.shape = "items list"
    /\ Len(structured.items) = 2 /\ Len(picked) = 3
    /\ files.today.version = FALLBACK_VERSION /\ Len(files.today.items) = 3

\* the call raised and the run has written the fallback payload
C6_WitnessRaised ==
    /\ pc = "done" /\ api_key /\ structured.outcome = "raised"
    /\ files.archive.version = FALLBACK_VERSION /\ Len(picked) > 0

\* C7 as stated: a feed whose handling failed contributes no candidate, the
\* feeds after it are still processed, and what was accumulated before it is
\* kept.
C7_FailedFeedContributesNothing ==
    Collecting =>
        /\ \A i \in 1..Len(items) : items[i].source \notin warned
        /\ pc = "collected" => feed_i = NumFeeds + 1

\* C8 as stated: for both variants the items of the payload correspond one to
\* one to the members of the Selection: as many items as members, every item
\* with the source and the URL of a member of its own.
C8_ItemsTraceToSelection ==
    Built =>
        /\ Len(payload.items) = Len(picked)
        /\ \E f \in [1..Len(picked) -> 1..Len(picked)] :
              /\ \A i \in 1..Len(picked), j \in 1..Len(picked) : i # j => f[i] # f[j]
              /\ \A i \in 1..Len(picked) :
                    /\ payload.items[i].source = picked[f[i]].source
                    /\ payload.items[i].original_url = picked[f[i]].original_url

\* whether a ranks strictly before b in (priority ascending, published_at
\* descending)
StrictlyBefore(a, b) ==
    \/ a.priority < b.priority
    \/ a.priority = b.priority /\ a.published_at > b.published_at

\* C9: the list collect_candidates returns has at most TOTAL_CANDIDATES
\* entries (80 in the source) and is ordered by priority ascending, then
\* published_at descending; it is the accumulated list cut to the cap, and no
\* candidate that was cut ranks strictly before one that was kept.
C9_SortedByPriorityThenRecency ==
    pc = "collected" =>
        /\ Len(cands) <= TOTAL_CANDIDATES
        /\ Len(cands) = Min(TOTAL_CANDIDATES, Len(items))
        /\ Elems(cands) \subseteq Elems(items)
        /\ \A i \in 1..Len(cands), j \in 1..Len(cands) :
              i < j =>
                 \/ cands[i].priority < cands[j].priority
                 \/ /\ cands[i].priority = cands[j].priority
                    /\ cands[i].published_at >= cands[j].published_at
        /\ \A d \in Elems(items) \ Elems(cands) :
              \A k \in Elems(cands) : ~StrictlyBefore(d, k)

\* more candidates than the cap were accumulated, and a candidate that was cut
\* is more recent than one that was kept for its priority
C9_Witness ==
    /\ pc = "collected" /\ Len(items) > TOTAL_CANDIDATES
    /\ \E d \in Elems(items) \ Elems(cands) :
          \E k \in Elems(cands) :
              d.published_at > k.published_at /\ k.priority < d.priority
    /\ \E i \in 1..Len(cands), j \in 1..Len(cands) :
          i < j /\ cands[i].priority = cands[j].priority
                /\ cands[i].published_at > cands[j].published_at
====
